---------------------------- MODULE Spec2Model ----------------------------
(***************************************************************************)
(* Model of ipi/utils/io/backends/io_nc.py: the Amber NetCDF trajectory    *)
(* sink (NCOutput / AppendAmberFrame / NewAmberNetCDF) and source          *)
(* (NCInput / read_nc), acting on one path of persistent storage.          *)
(*                                                                         *)
(* Python's None is the empty tuple and a present value x is <<x>>.        *)
(* Python indices are 0-based; TLA+ sequences are 1-based, so record i of  *)
(* a variable is element i+1 of its sequence.                              *)
(***************************************************************************)
EXTENDS Integers, Sequences

VARIABLES
  disk,    \* the file at the path, as persistent storage holds it
  out,     \* NCOutput.out: None or the sink's netcdf_file object
  rd,      \* None or the NCInput object
  ret,     \* outcome of the last call: what it returned or raised
  log,     \* history: the frames whose append returned normally
  disk0,   \* history: the file at the path before the first call
  scipy    \* whether the module-level import of scipy succeeded (lines 12-15)

vars == <<disk, out, rd, ret, log, disk0, scipy>>

\* Largest number of records of `time` from which an append is still taken.
MaxFrames == 3

None == <<>>
Some(x) == <<x>>

Abs(x) == IF x < 0 THEN -x ELSE x

Max(a, b) == IF a >= b THEN a ELSE b

-----------------------------------------------------------------------------
(* Number formats of the schema.                                           *)

\* Length of the "spatial" dimension.
Spatial == 3

\* Integers up to this magnitude are exact in a 32-bit float.
F32Exact == 2^24

\* Storing x in a variable of type "f" (32-bit float): exact up to 2^24,
\* round-to-nearest-even on multiples of 2 up to 2^25 (the model's inputs
\* stay below that).
F32(x) ==
  IF Abs(x) <= F32Exact THEN x
  ELSE LET m == Abs(x)
           lo == 2 * (m \div 2)
           r  == IF m = lo THEN lo
                 ELSE IF (lo \div 2) % 2 = 0 THEN lo ELSE lo + 2
       IN IF x < 0 THEN -r ELSE r

\* Equality within the relative precision of a 32-bit float.
CloseF32(a, b) == Abs(a - b) <= Abs(a) \div F32Exact

\* An (natoms, 3) coordinate block stored as 32-bit floats.
F32Block(crds) ==
  [a \in 1..Len(crds) |-> [k \in 1..Spatial |-> F32(crds[a][k])]]

-----------------------------------------------------------------------------
(* Inputs.                                                                 *)

AtomO == <<0, 0, 0>>
AtomX == <<1, 0, 0>>
AtomBig == <<16777217, 2, 3>>

CellCubic == <<10, 10, 10, 90, 90, 90>>
CellTri == <<2, 3, 4, 60, 90, 120>>

\* The frames (crds, cell) handed to NCOutput.append: 1, 2 and 3 atoms.
FrameInputs ==
  { <<(<<AtomX>>), CellCubic>>,
    <<(<<AtomBig, AtomO>>), CellTri>>,
    <<(<<AtomO, AtomX, AtomBig>>), CellCubic>> }

RecordVars == {"time", "coordinates", "cell_lengths", "cell_angles"}

\* Zero record of a record variable (what an in-place resize fills with).
ZeroRec(v, natoms) ==
  CASE v = "time" -> 0
    [] v = "coordinates" -> [a \in 1..natoms |-> <<0, 0, 0>>]
    [] OTHER -> <<0, 0, 0>>

\* A NetCDF file as stored: every record variable has numrecs records.
NcFile(natoms, variables) ==
  [kind |-> "nc", natoms |-> natoms, variables |-> variables]

NoFile == [kind |-> "NoFile"]
EmptyFile == [kind |-> "Empty"]

\* One well-formed frame of a 2-atom file written by another program.
PreRec(v) ==
  CASE v = "time" -> 0
    [] v = "coordinates" -> <<AtomX, AtomO>>
    [] v = "cell_lengths" -> <<10, 10, 10>>
    [] OTHER -> <<90, 90, 90>>

PreVars(S) == [v \in S |-> <<PreRec(v)>>]

\* Files that may already be at the path: a full Amber file, and files of
\* other producers that lack some of the variables.
PreFiles ==
  { NcFile(2, PreVars(RecordVars)),
    NcFile(2, PreVars({"time"})),
    NcFile(2, PreVars({"time", "coordinates"})),
    NcFile(2, PreVars({"time", "coordinates", "cell_lengths"})),
    NcFile(2, PreVars({"time", "coordinates", "cell_angles"})) }

-----------------------------------------------------------------------------
(* scipy.io.netcdf_file as the sink uses it.  An open object is            *)
(*   [mode, closed, natoms, variables, owned, recs]                        *)
(* variables maps the names of the record variables it holds to their      *)
(* records (close empties it), natoms is the "atom" dimension, recs the    *)
(* record count of the header, and owned the variables whose array owns    *)
(* its buffer (an array loaded from a file is a view of the record buffer).*)

SeqMax(f) ==
  IF DOMAIN f = {} THEN 0
  ELSE LET v == CHOOSE v \in DOMAIN f : \A w \in DOMAIN f : Len(f[v]) >= Len(f[w])
       IN Len(f[v])

NumRecs(file) == SeqMax(file.variables)

\* Growing a record variable to n records: an owned array is resized in
\* place (zero fill); a view is rebuilt by numpy.resize, which repeats the
\* old records (and gives zeros when there were none).
Resize(data, n, isOwned, zero) ==
  IF n <= Len(data) THEN data
  ELSE IF isOwned \/ Len(data) = 0
       THEN [k \in 1..n |-> IF k <= Len(data) THEN data[k] ELSE zero]
       ELSE [k \in 1..n |-> data[((k - 1) % Len(data)) + 1]]

\* obj.variables[v] grown to hold record idx (netcdf_variable.__setitem__
\* on a record variable, before the value is stored).
GrowRec(obj, v, idx) ==
  [obj EXCEPT
     !.variables[v] = Resize(@, idx + 1, v \in obj.owned, ZeroRec(v, obj.natoms)),
     !.owned = IF idx + 1 > Len(obj.variables[v]) THEN @ \cup {v} ELSE @]

\* obj.variables[v][idx] = val
SetRec(obj, v, idx, val) ==
  [GrowRec(obj, v, idx) EXCEPT !.variables[v][idx + 1] = val]

\* netcdf_file(filename, "w") followed by the schema of lines 58-88: the
\* four record variables, empty, over an "atom" dimension of natoms.
NewAmberNetCDF(natoms) ==
  [mode |-> "w", closed |-> FALSE, natoms |-> natoms,
   variables |-> [v \in RecordVars |-> <<>>],
   owned |-> RecordVars, recs |-> 0]

\* netcdf_file(filename, "a") on the file dsk (which exists).
OpenAppend(dsk) ==
  [mode |-> "a", closed |-> FALSE, natoms |-> dsk.natoms,
   variables |-> dsk.variables, owned |-> {}, recs |-> NumRecs(dsk)]

\* netcdf_file.flush on an open object: the header's record count becomes
\* the longest record variable, shorter ones are padded to it, and the
\* whole file is rewritten.
FlushedObj(obj) ==
  LET n == Max(obj.recs, SeqMax(obj.variables))
  IN [obj EXCEPT
        !.recs = n,
        !.variables = [v \in DOMAIN obj.variables |->
                         Resize(obj.variables[v], n, v \in obj.owned,
                                ZeroRec(v, obj.natoms))],
        !.owned = @ \cup {v \in DOMAIN obj.variables : Len(obj.variables[v]) < n}]

FileOf(obj) == NcFile(obj.natoms, obj.variables)

\* A close that leaves the variables in place.
ClosedObj_keep(obj) == [FlushedObj(obj) EXCEPT !.closed = TRUE]

\* netcdf_file.close on an open object: flush, then drop the variables.
ClosedObj(obj) ==
  [FlushedObj(obj) EXCEPT !.closed = TRUE, !.variables = [v \in {} |-> <<>>]]

-----------------------------------------------------------------------------
(* AppendAmberFrame, lines 114-126.  Each operator is the rest of the      *)
(* function from one statement on; the result is                           *)
(*   [raised, obj, dsk]                                                    *)
(* raised: "" on return, else the exception; obj: None or the netcdf       *)
(* object as the call left it; dsk: the file at the path afterwards.       *)

Result(raised, obj, dsk) == [raised |-> raised, obj |-> obj, dsk |-> dsk]

\* The value numpy stores for coordinates[idx, :, :] = crds, or None when
\* the shapes do not broadcast: a one-atom block is broadcast to every atom.
CoordValue(natoms, crds) ==
  IF Len(crds) = natoms THEN Some(F32Block(crds))
  ELSE IF Len(crds) = 1 THEN Some([a \in 1..natoms |-> F32Block(crds)[1]])
  ELSE None

\* line 125
WriteAngles(obj, idx, cell, dsk) ==
  IF "cell_angles" \notin DOMAIN obj.variables
  THEN Result("KeyError", Some(obj), dsk)
  ELSE Result("", Some(SetRec(obj, "cell_angles", idx,
                              <<cell[4], cell[5], cell[6]>>)), dsk)

\* lines 124-125
WriteCell(obj, idx, cell, dsk) ==
  IF "cell_lengths" \notin DOMAIN obj.variables
  THEN Result("KeyError", Some(obj), dsk)
  ELSE WriteAngles(SetRec(obj, "cell_lengths", idx, <<cell[1], cell[2], cell[3]>>),
                   idx, cell, dsk)

\* line 123, once the variable holds record idx: the store of the value
\* val, or the ValueError of a block that does not broadcast (val = None).
StoreCoordinates(grown, val, idx, cell, dsk) ==
  IF val = None
  THEN Result("ValueError", Some(grown), dsk)
  ELSE WriteCell([grown EXCEPT !.variables["coordinates"][idx + 1] = val[1]],
                 idx, cell, dsk)

\* A variant of line 123 that re-sizes the atom dimension to the block given.
WriteCoordinates_resize(obj, idx, crds, cell, dsk) ==
  IF "coordinates" \in DOMAIN obj.variables
  THEN WriteCell([GrowRec(obj, "coordinates", idx) EXCEPT
                    !.natoms = Len(crds),
                    !.variables["coordinates"][idx + 1] = F32Block(crds)],
                 idx, cell, dsk)
  ELSE Result("KeyError", Some(obj), dsk)

\* line 123
WriteCoordinates(obj, idx, crds, cell, dsk) ==
  IF "coordinates" \notin DOMAIN obj.variables
  THEN Result("KeyError", Some(obj), dsk)
  ELSE StoreCoordinates(GrowRec(obj, "coordinates", idx),
                         CoordValue(obj.natoms, crds), idx, cell, dsk)

\* A variant of lines 119-122 that counts the default time from one.
WriteFrame_onebased(obj, crds, cell, time, dsk) ==
  IF "time" \notin DOMAIN obj.variables
  THEN Result("KeyError", Some(obj), dsk)
  ELSE LET idx == Len(obj.variables["time"])
           t == IF time = None THEN idx + 1 ELSE time[1]
       IN WriteCoordinates(SetRec(obj, "time", idx, F32(t)), idx, crds, cell, dsk)

\* lines 119-126
WriteFrame(obj, crds, cell, time, dsk) ==
  IF "time" \notin DOMAIN obj.variables
  THEN Result("KeyError", Some(obj), dsk)
  ELSE LET idx == Len(obj.variables["time"])
           t == IF time = None THEN idx ELSE time[1]
       IN WriteCoordinates(SetRec(obj, "time", idx, F32(t)), idx, crds, cell, dsk)

AppendAmberFrame(netcdfobj, crds, cell, time, dsk) ==
  IF netcdfobj = None
  THEN IF dsk.kind # "NoFile"
       THEN IF dsk.kind = "Empty"
            THEN Result("TypeError", None, dsk)
            ELSE WriteFrame(OpenAppend(dsk), crds, cell, time, dsk)
       ELSE WriteFrame(NewAmberNetCDF(Len(crds)), crds, cell, time, EmptyFile)
  ELSE WriteFrame(netcdfobj[1], crds, cell, time, dsk)

\* Records of `time` the object holds (0 when it holds no such variable).
TimeLen(obj) ==
  IF "time" \in DOMAIN obj.variables THEN Len(obj.variables["time"]) ELSE 0

Ret(op, outcome, value) == [op |-> op, outcome |-> outcome, value |-> value]

\* A check that never raises.
ScipyCheck_skip(have) == ""

\* _scipycheck(), lines 19-27: what it raises ("" when it returns).
ScipyCheck(have) == IF have THEN "" ELSE "RuntimeError"

\* `from scipy.io import netcdf_file` of lines 53, 111 and 190.
ImportScipy(have) == IF have THEN "" ELSE "ImportError"

\* What a constructor raises before it touches the path: _scipycheck of
\* lines 144 and 189, then (NCInput) the import of line 190.
EntryError(have) ==
  IF ScipyCheck(have) # "" THEN ScipyCheck(have) ELSE ImportScipy(have)

-----------------------------------------------------------------------------
(* NCOutput                                                                *)

\* NCOutput(filename): a new sink, its file object not yet created.  One
\* sink at a time holds the path: a new one is made once the last is closed.
\* Without scipy the constructor raises (line 144) and no sink comes to be.
NCOutput_init ==
  /\ IF ScipyCheck(scipy) # ""
     THEN out' = out /\ ret' = Ret("NCOutput", ScipyCheck(scipy), None)
     ELSE /\ out # None
          /\ out[1].closed
          /\ out' = None
          /\ ret' = Ret("NCOutput", "ok", None)
  /\ UNCHANGED <<disk, rd, log, disk0, scipy>>

\* NCOutput.append(crds, cell): self.out is assigned only when
\* AppendAmberFrame returns.  When it raises with self.out still None the
\* object it opened is unreferenced, and netcdf_file.__del__ (= close)
\* writes it out whenever the interpreter finalizes it (fin).
AppendOutcome(r, crds, cell, fin) ==
  /\ IF r.obj = None THEN TRUE ELSE TimeLen(r.obj[1]) <= MaxFrames
  /\ IF r.raised = ""
     THEN /\ fin = FALSE
          /\ out' = r.obj
          /\ disk' = r.dsk
          /\ log' = Append(log, <<crds, cell>>)
     ELSE /\ log' = log
          /\ IF out # None
             THEN fin = FALSE /\ out' = r.obj /\ disk' = r.dsk
             ELSE /\ out' = None
                  /\ IF r.obj = None
                     THEN fin = FALSE /\ disk' = r.dsk
                     ELSE IF fin
                          THEN disk' = FileOf(FlushedObj(r.obj[1]))
                          ELSE disk' = r.dsk
  /\ ret' = Ret("append", IF r.raised = "" THEN "ok" ELSE r.raised, None)
  /\ UNCHANGED <<rd, disk0, scipy>>

\* line 158
NCOutput_append(crds, cell, fin) ==
  /\ scipy
  /\ AppendOutcome(AppendAmberFrame(out, crds, cell, None, disk), crds, cell, fin)

\* self.out.flush() of lines 149 and 154.
SinkFlush(op) ==
  IF out = None
  THEN /\ ret' = Ret(op, "ok", None)
       /\ UNCHANGED <<disk, out>>
  ELSE IF out[1].closed
       THEN /\ ret' = Ret(op, "ValueError", None)
            /\ UNCHANGED <<disk, out>>
       ELSE /\ out' = Some(FlushedObj(out[1]))
            /\ disk' = FileOf(FlushedObj(out[1]))
            /\ ret' = Ret(op, "ok", None)

NCOutput_force_flush ==
  /\ scipy
  /\ SinkFlush("force_flush")
  /\ UNCHANGED <<rd, log, disk0, scipy>>

NCOutput_flush ==
  /\ scipy
  /\ SinkFlush("flush")
  /\ UNCHANGED <<rd, log, disk0, scipy>>

\* AppendAmberFrame(None, crds, cell, filename) called where scipy is
\* missing: the import of line 111 raises before line 115 looks at the path.
\* (With scipy the function is reached through NCOutput.append.)
AppendAmberFrame_call(crds, cell) ==
  /\ ImportScipy(scipy) # ""
  /\ ret' = Ret("AppendAmberFrame", ImportScipy(scipy), None)
  /\ UNCHANGED <<disk, out, rd, log, disk0, scipy>>

\* NCOutput.close: self.out.close().  netcdf_file.close returns at once
\* when its file is already closed.
NCOutput_close ==
  /\ scipy
  /\ IF out = None
     THEN /\ ret' = Ret("close", "AttributeError", None)
          /\ UNCHANGED <<disk, out>>
     ELSE IF out[1].closed
          THEN /\ ret' = Ret("close", "ok", None)
               /\ UNCHANGED <<disk, out>>
          ELSE /\ out' = Some(ClosedObj(out[1]))
               /\ disk' = FileOf(FlushedObj(out[1]))
               /\ ret' = Ret("close", "ok", None)
  /\ UNCHANGED <<rd, log, disk0, scipy>>

-----------------------------------------------------------------------------
(* Cell geometry (ipi.utils.mathtools), in fixed point: lengths in         *)
(* thousandths of an angstrom, angles in microradians, sines and cosines   *)
(* in thousandths, tabulated for the angles the inputs use.                *)

\* Fixed-point scale: thousandths.
Milli == 10^3

\* numpy.deg2rad on whole degrees: d * pi / 180, in microradians.
Deg2Rad(d) == (d * 3141593) \div 180

Cos(r) ==
  CASE r = Deg2Rad(0) -> 1000
    [] r = Deg2Rad(60) -> 500
    [] r = Deg2Rad(90) -> 0
    [] r = Deg2Rad(120) -> -500

Sin(r) ==
  CASE r = Deg2Rad(0) -> 0
    [] r = Deg2Rad(60) -> 866
    [] r = Deg2Rad(90) -> 1000
    [] r = Deg2Rad(120) -> 866

RECURSIVE SqrtIter(_, _, _)
SqrtIter(n, lo, hi) ==
  IF lo >= hi THEN lo
  ELSE LET mid == (lo + hi + 1) \div 2
       IN IF mid * mid <= n THEN SqrtIter(n, mid, hi) ELSE SqrtIter(n, lo, mid - 1)

\* floor of the square root, for 0 <= n < 2^31
ISqrt(n) == SqrtIter(n, 0, IF n < 46340 THEN n ELSE 46340)

\* abc2h(a, b, c, alpha, beta, gamma): the upper-triangular lattice matrix,
\* first vector along x, second in the xy plane.  A zero second vector
\* divides by zero (kind "nan"); a negative radicand raises (kind "error").
Abc2hRows(h00, h01, h02, h11, h12, rad) ==
  IF rad < 0 THEN [kind |-> "error"]
  ELSE [kind |-> "matrix",
        h |-> << <<h00, h01, h02>>, <<0, h11, h12>>, <<0, 0, ISqrt(rad)>> >>]

Abc2hLast(c, h00, h01, h02, h11, h12) ==
  Abc2hRows(h00, h01, h02, h11, h12,
            c * c * Milli * Milli - h02 * h02 - h12 * h12)

Abc2hSecond(b, c, alpha, h00, h01, h02, h11) ==
  IF h11 = 0 THEN [kind |-> "nan"]
  ELSE Abc2hLast(c, h00, h01, h02, h11,
                 (b * c * Cos(alpha) * Milli - h01 * h02) \div h11)

Abc2h(a, b, c, alpha, beta, gamma) ==
  Abc2hSecond(b, c, alpha,
              a * Milli, b * Cos(gamma), c * Cos(beta), b * Sin(gamma))

-----------------------------------------------------------------------------
(* NCInput and read_nc.  The object is                                     *)
(*   [name, closed, variables, shape, cframe]                              *)
(* variables: the record variables of the file as read at open (emptied by *)
(* close); shape and cframe: None or the value.                            *)

FileName == "out"

\* A variant that falls back on the records of `time`.
OpenShape_time(file) ==
  IF "coordinates" \in DOMAIN file.variables
  THEN <<Len(file.variables["coordinates"]), file.natoms, Spatial>>
  ELSE <<NumRecs(file), 0, 0>>

\* line 197, with the default of line 194
OpenShape(file) ==
  IF "coordinates" \in DOMAIN file.variables
  THEN <<Len(file.variables["coordinates"]), file.natoms, Spatial>>
  ELSE <<0, 0, 0>>

\* NCInput(filename), lines 189-197.  netcdf_file(filename, "r") raises on
\* a missing path and on a file of no bytes.  One source at a time: a new
\* one is opened once the last is closed.
NCInput_init ==
  /\ IF rd = None THEN TRUE ELSE rd[1].closed
  /\ IF EntryError(scipy) # ""
     THEN ret' = Ret("NCInput", EntryError(scipy), None) /\ rd' = rd
     ELSE IF disk.kind = "NoFile"
     THEN ret' = Ret("NCInput", "FileNotFoundError", None) /\ rd' = rd
     ELSE IF disk.kind = "Empty"
          THEN ret' = Ret("NCInput", "ValueError", None) /\ rd' = rd
          ELSE /\ rd' = Some([name |-> FileName, closed |-> FALSE,
                              variables |-> disk.variables,
                              shape |-> Some(OpenShape(disk)),
                              cframe |-> Some(0)])
               /\ ret' = Ret("NCInput", "ok", None)
  /\ UNCHANGED <<disk, out, log, disk0, scipy>>

\* A close that closes the file but keeps shape and cframe.
ClosedInput_keep(r) ==
  [r EXCEPT !.closed = TRUE, !.variables = [v \in {} |-> <<>>]]

\* NCInput.close, lines 201-203
ClosedInput(r) ==
  [r EXCEPT !.shape = None, !.cframe = None, !.closed = TRUE,
            !.variables = [v \in {} |-> <<>>]]

NCInput_close ==
  /\ rd # None
  /\ rd' = Some(ClosedInput(rd[1]))
  /\ ret' = Ret("NCInput.close", "ok", None)
  /\ UNCHANGED <<disk, out, log, disk0, scipy>>

\* ndarray.flatten of an (natoms, 3) block
Flatten(block) ==
  [k \in 1..(Spatial * Len(block)) |->
     block[((k - 1) \div Spatial) + 1][((k - 1) % Spatial) + 1]]

\* The test of line 239, and a variant that also admits i = shape[0].
HasFrame_le(i, shape) == i <= shape[1]

\* line 239
HasFrame(i, shape) == i < shape[1]

\* The cursor update of line 259, and a variant that leaves it out.
Advance_none(r) == r

\* A variant of line 259 that also counts the frame off the shape.
Advance_consume(r) ==
  [r EXCEPT !.cframe = Some(r.cframe[1] + 1),
            !.shape = Some(<<r.shape[1][1] - 1, r.shape[1][2], r.shape[1][3]>>)]

\* line 259
Advance(r) == [r EXCEPT !.cframe = Some(r.cframe[1] + 1)]

\* line 258: the cell, or the ValueError of abc2h
CellOf(h) ==
  IF h.kind = "error"
  THEN [raised |-> "ValueError", cell |-> None]
  ELSE [raised |-> "", cell |-> Some(h)]

\* lines 251-258: [raised, cell]
ReadCell(variables, i) ==
  IF "cell_lengths" \in DOMAIN variables
  THEN IF i + 1 > Len(variables["cell_lengths"])
       THEN [raised |-> "IndexError", cell |-> None]
       ELSE IF "cell_angles" \notin DOMAIN variables
            THEN [raised |-> "KeyError", cell |-> None]
            ELSE IF i + 1 > Len(variables["cell_angles"])
                 THEN [raised |-> "IndexError", cell |-> None]
                 ELSE CellOf(Abc2h(variables["cell_lengths"][i + 1][1],
                                   variables["cell_lengths"][i + 1][2],
                                   variables["cell_lengths"][i + 1][3],
                                   Deg2Rad(variables["cell_angles"][i + 1][1]),
                                   Deg2Rad(variables["cell_angles"][i + 1][2]),
                                   Deg2Rad(variables["cell_angles"][i + 1][3])))
  ELSE [raised |-> "", cell |-> None]

\* A variant of lines 240-242 that sizes names and masses by shape[0].
FrameOf_frames(r, i, c) ==
  IF c.raised # ""
  THEN [raised |-> c.raised, value |-> None]
  ELSE [raised |-> "",
        value |-> Some([comment |-> "# positions{angstrom} cell{angstrom}",
                        cell |-> c.cell,
                        qatoms |-> Flatten(r.variables["coordinates"][i + 1]),
                        names |-> [a \in 1..r.shape[1][1] |-> "XX"],
                        masses |-> [a \in 1..r.shape[1][1] |-> 0]])]

\* lines 240-260, given the outcome c of the cell read: [raised, value]
FrameOf(r, i, c) ==
  IF c.raised # ""
  THEN [raised |-> c.raised, value |-> None]
  ELSE [raised |-> "",
        value |-> Some([comment |-> "# positions{angstrom} cell{angstrom}",
                        cell |-> c.cell,
                        qatoms |-> Flatten(r.variables["coordinates"][i + 1]),
                        names |-> [a \in 1..r.shape[1][2] |-> "XX"],
                        masses |-> [a \in 1..r.shape[1][2] |-> 0]])]

\* lines 240-260: [raised, value]
ReadFrame(r, i) ==
  IF "coordinates" \notin DOMAIN r.variables
  THEN [raised |-> "KeyError", value |-> None]
  ELSE IF i + 1 > Len(r.variables["coordinates"])
       THEN [raised |-> "IndexError", value |-> None]
       ELSE FrameOf(r, i, ReadCell(r.variables, i))

\* lines 259-262, given the outcome f of lines 240-258
ReadOutcome(r, f) ==
  IF f.raised # ""
  THEN ret' = Ret("read_nc", f.raised, None) /\ rd' = rd
  ELSE /\ rd' = Some(Advance(r))
       /\ ret' = Ret("read_nc", "ok", f.value)

\* read_nc(filedesc), lines 238-262
read_nc ==
  /\ rd # None
  /\ IF rd[1].shape = None \/ rd[1].cframe = None
     THEN ret' = Ret("read_nc", "TypeError", None) /\ rd' = rd
     ELSE IF HasFrame(rd[1].cframe[1], rd[1].shape[1])
          THEN ReadOutcome(rd[1], ReadFrame(rd[1], rd[1].cframe[1]))
          ELSE ret' = Ret("read_nc", "EOFError", None) /\ rd' = rd
  /\ UNCHANGED <<disk, out, log, disk0, scipy>>

-----------------------------------------------------------------------------

Init ==
  /\ disk \in {NoFile, EmptyFile} \cup PreFiles
  /\ disk0 = disk
  /\ out = None
  /\ rd = None
  /\ ret = Ret("start", "ok", None)
  /\ log = <<>>
  /\ scipy \in BOOLEAN

Next ==
  \/ NCOutput_init
  \/ \E f \in FrameInputs, fin \in BOOLEAN : NCOutput_append(f[1], f[2], fin)
  \/ NCOutput_force_flush
  \/ NCOutput_flush
  \/ NCOutput_close
  \/ \E f \in FrameInputs : AppendAmberFrame_call(f[1], f[2])
  \/ NCInput_init
  \/ NCInput_close
  \/ read_nc

Spec == Init /\ [][Next]_vars

-----------------------------------------------------------------------------
(* Properties.                                                             *)

SinkOpen == out # None /\ ~out[1].closed
SinkClosed == out # None /\ out[1].closed
SourceOpen == rd # None /\ ~rd[1].closed
SourceClosed == rd # None /\ rd[1].closed

\* Some NCOutput.append call is this step.
AppendStep == \E f \in FrameInputs, fin \in BOOLEAN : NCOutput_append(f[1], f[2], fin)

CloseFlat(x, y) ==
  /\ Len(x) = Len(y)
  /\ \A k \in 1..Len(x) : CloseF32(x[k], y[k])

\* The value read_nc returns carries the appended frame f = <<crds, cell>>.
Carries(value, f) ==
  /\ CloseFlat(Flatten(f[1]), value.qatoms)
  /\ value.cell = Some(Abc2h(f[2][1], f[2][2], f[2][3],
                             Deg2Rad(f[2][4]), Deg2Rad(f[2][5]), Deg2Rad(f[2][6])))

\* C1: a file written from scratch, once its sink is closed, reads back as
\* exactly the appended frames: a source opened on it records Len(log)
\* frames, the frame a read returns at cursor k is the k-th frame appended,
\* and end-of-data is signalled only at cursor Len(log).
C1_RoundTrip ==
  ( /\ disk0.kind = "NoFile"
    /\ SinkClosed
    /\ SourceOpen
    /\ disk.kind = "nc"
    /\ rd[1].variables = disk.variables )
  => /\ rd[1].shape[1][1] = Len(log)
     /\ rd[1].cframe[1] <= Len(log)
     /\ (ret.op = "read_nc" /\ ret.outcome = "ok")
          => Carries(ret.value[1], log[rd[1].cframe[1]])
     /\ (ret.op = "read_nc" /\ ret.outcome # "ok")
          => (ret.outcome = "EOFError" /\ rd[1].cframe[1] = Len(log))

\* C2: a sink on a path that held an N-frame Amber file has it open for
\* appending, and holds N + K frames after K appends returned, the first N
\* being those the file held.
C2_AppendOnly ==
  ( /\ disk0.kind = "nc"
    /\ DOMAIN disk0.variables = RecordVars
    /\ SinkOpen )
  => /\ out[1].mode = "a"
     /\ \A v \in RecordVars :
          /\ Len(out[1].variables[v]) = NumRecs(disk0) + Len(log)
          /\ \A k \in 1..NumRecs(disk0) :
               out[1].variables[v][k] = disk0.variables[v][k]

\* C3: an append of a block whose atom count differs from the open file's
\* atom dimension raises, and leaves every per-frame variable as long as it
\* was.
C3_AtomCountEnforced ==
  [][ \A f \in FrameInputs, fin \in BOOLEAN :
        ( /\ SinkOpen
          /\ DOMAIN out[1].variables = RecordVars
          /\ Len(f[1]) # out[1].natoms
          /\ NCOutput_append(f[1], f[2], fin) )
        => /\ ret'.outcome # "ok"
           /\ \A v \in RecordVars :
                Len(out'[1].variables[v]) = Len(out[1].variables[v]) ]_vars

\* C4: the atom count of the file never changes: not in the sink's object,
\* not in storage; an object opened on an existing file takes the file's,
\* a created one the atom count of the frame that created it, and storage
\* takes the object's.
C4_AtomCountFixed ==
  [][ /\ (out # None /\ out' # None) => out'[1].natoms = out[1].natoms
      /\ (disk.kind = "nc" /\ disk'.kind = "nc") => disk'.natoms = disk.natoms
      /\ (out = None /\ out' # None)
           => out'[1].natoms = IF disk.kind = "nc" THEN disk.natoms
                               ELSE Len(log'[Len(log')][1])
      /\ (disk.kind # "nc" /\ disk'.kind = "nc")
           => (out # None /\ disk'.natoms = out[1].natoms) ]_vars

\* C4's case: a file created from scratch whose sink has had an append of
\* another atom count raise.
C4_Witness ==
  /\ disk0.kind = "NoFile"
  /\ disk.kind = "nc"
  /\ out # None
  /\ ret.op = "append"
  /\ ret.outcome = "ValueError"
  /\ out[1].natoms = Len(log[1][1])

\* The cell read_nc derives from the records stored at index i, None when
\* the file holds no cell_lengths.
StoredCell(variables, i) ==
  IF "cell_lengths" \in DOMAIN variables
  THEN Some(Abc2h(variables["cell_lengths"][i + 1][1],
                  variables["cell_lengths"][i + 1][2],
                  variables["cell_lengths"][i + 1][3],
                  Deg2Rad(variables["cell_angles"][i + 1][1]),
                  Deg2Rad(variables["cell_angles"][i + 1][2]),
                  Deg2Rad(variables["cell_angles"][i + 1][3])))
  ELSE None

\* C5: the cursor is 0 when the source is opened; while the source stays
\* open it never decreases, a read_nc that returns a frame adds exactly 1
\* and returns the frame stored at the old cursor, and every other step
\* (a read_nc that raises, any call on the sink) leaves it as it was.
C5_Cursor ==
  [][ /\ (~SourceOpen /\ SourceOpen') => rd'[1].cframe = Some(0)
      /\ (SourceOpen /\ SourceOpen')
           => /\ rd'[1].cframe[1] >= rd[1].cframe[1]
              /\ IF read_nc /\ ret'.outcome = "ok"
                 THEN /\ rd'[1].cframe[1] = rd[1].cframe[1] + 1
                      /\ ret'.value[1].qatoms =
                           Flatten(rd[1].variables["coordinates"][rd[1].cframe[1] + 1])
                      /\ ret'.value[1].cell =
                           StoredCell(rd[1].variables, rd[1].cframe[1])
                 ELSE rd'[1].cframe[1] = rd[1].cframe[1] ]_vars

\* C5's case: two reads in a row have each returned a frame.
C5_Witness ==
  /\ SourceOpen
  /\ ret.op = "read_nc"
  /\ ret.outcome = "ok"
  /\ rd[1].cframe = Some(2)

\* C6: with the cursor at the frame count, read_nc raises EOFError and
\* changes neither the source nor the file, and the source stays exhausted
\* for as long as it is open.
C6_Exhausted ==
  [][ (SourceOpen /\ rd[1].cframe[1] = rd[1].shape[1][1])
        => /\ read_nc => /\ ret'.outcome = "EOFError"
                         /\ ret'.value = None
                         /\ rd' = rd
                         /\ disk' = disk
           /\ SourceOpen' => rd' = rd ]_vars

\* C6's case: a source that has returned frames and then raised EOFError.
C6_Witness ==
  /\ SourceOpen
  /\ ret.op = "read_nc"
  /\ ret.outcome = "EOFError"
  /\ rd[1].cframe[1] = rd[1].shape[1][1]
  /\ rd[1].cframe[1] >= 1

\* C7: a read_nc on a closed source raises an error that is not the
\* end-of-data signal and returns nothing.
C7_ReadAfterClose ==
  (SourceClosed /\ ret.op = "read_nc")
    => /\ ret.outcome = "TypeError"
       /\ ret.value = None
       /\ rd[1].shape = None
       /\ rd[1].cframe = None

\* C7's case: a read_nc has been made on a closed source.
C7_Witness ==
  /\ SourceClosed
  /\ ret.op = "read_nc"
  /\ ret.outcome # "ok"

\* C8 as stated: on a closed sink, append, flush, force_flush and a second
\* close all raise, and change nothing.
C8_UseAfterClose ==
  [][ (SinkClosed /\ (AppendStep \/ NCOutput_flush \/ NCOutput_force_flush
                        \/ NCOutput_close))
        => /\ ret'.outcome # "ok"
           /\ out' = out /\ disk' = disk /\ log' = log ]_vars

\* C8 amended: on a closed sink, append, flush and force_flush raise and a
\* second close returns; none of them changes the sink, the file or the
\* frames appended.
C8_Amended ==
  [][ /\ (SinkClosed /\ (AppendStep \/ NCOutput_flush \/ NCOutput_force_flush))
           => /\ ret'.outcome \in {"KeyError", "ValueError"}
              /\ out' = out /\ disk' = disk /\ log' = log
      /\ (SinkClosed /\ NCOutput_close)
           => /\ ret'.outcome = "ok"
              /\ out' = out /\ disk' = disk /\ log' = log ]_vars

\* C8's case: an append has been made on a closed sink.
C8_Witness ==
  /\ SinkClosed
  /\ ret.op = "append"
  /\ ret.outcome # "ok"

NoCoordinates(file) == file.kind = "nc" /\ "coordinates" \notin DOMAIN file.variables

C10_MissingCell ==
  [][ ( /\ SourceOpen
        /\ "coordinates" \in DOMAIN rd[1].variables
        /\ ( \/ "cell_lengths" \notin DOMAIN rd[1].variables
             \/ "cell_angles" \notin DOMAIN rd[1].variables )
        /\ rd[1].cframe[1] < rd[1].shape[1][1]
        /\ read_nc )
      => /\ ret'.outcome = "ok"
         /\ ret'.value[1].cell = None
         /\ rd'[1].cframe = Some(rd[1].cframe[1] + 1) ]_vars

\* The index line 119 computes for an append taken in this state: the
\* records of `time` in the sink's object, or in the file it would open.
StartIndex ==
  IF out # None THEN TimeLen(out[1])
  ELSE IF disk.kind = "nc" /\ "time" \in DOMAIN disk.variables
       THEN Len(disk.variables["time"])
       ELSE 0

\* The frames persistent storage holds (None: no file, or one of no bytes).
Stored(d) == IF d.kind = "nc" THEN Some(d.variables) ELSE None

\* C11: an append that returns has written every per-frame variable at the
\* index that was the length of `time` when the call began, and has stored
\* that index as the frame's time; so while every append to a file written
\* from scratch has returned, time[i] = i for every frame i.
C11_TimeIsIndex ==
  [][ (AppendStep /\ ret'.outcome = "ok")
      => /\ \A v \in RecordVars :
              Len(out'[1].variables[v]) = StartIndex + 1
         /\ out'[1].variables["time"][StartIndex + 1] = StartIndex
         /\ out'[1].variables["cell_lengths"][StartIndex + 1]
              = SubSeq(log'[Len(log')][2], 1, 3)
         /\ (disk0.kind = "NoFile" /\ Len(log') = TimeLen(out'[1]))
              => \A i \in 0..(TimeLen(out'[1]) - 1) :
                   out'[1].variables["time"][i + 1] = i ]_vars

\* C11's case: a file written from scratch holds three frames, every
\* append having returned.
C11_Witness ==
  /\ disk0.kind = "NoFile"
  /\ SinkOpen
  /\ ret = Ret("append", "ok", None)
  /\ Len(log) = 3
  /\ TimeLen(out[1]) = 3

\* C12: an append that returns grows the frame dimension by exactly one and
\* leaves the frames in persistent storage as they were; those frames
\* change only in a flush, a force_flush or a close of the sink.
C12_NoImplicitFlush ==
  [][ /\ (AppendStep /\ ret'.outcome = "ok")
           => /\ TimeLen(out'[1]) = StartIndex + 1
              /\ Stored(disk') = Stored(disk)
      /\ (Stored(disk') # Stored(disk))
           => (NCOutput_flush \/ NCOutput_force_flush \/ NCOutput_close) ]_vars

\* C13: a frame read_nc returns carries one label and one mass per atom of
\* the file's atom count, every label the placeholder "XX" and every mass
\* zero, whichever frame it is and whatever it holds.
C13_Placeholders ==
  (ret.op = "read_nc" /\ ret.outcome = "ok")
  => /\ DOMAIN ret.value[1].names = 1..rd[1].shape[1][2]
     /\ DOMAIN ret.value[1].masses = 1..rd[1].shape[1][2]
     /\ Len(ret.value[1].qatoms) = Spatial * Len(ret.value[1].names)
     /\ \A a \in 1..rd[1].shape[1][2] :
          ret.value[1].names[a] = "XX" /\ ret.value[1].masses[a] = 0

\* C13's case: the second frame of a file of two atoms has been returned.
C13_Witness ==
  /\ ret.op = "read_nc"
  /\ ret.outcome = "ok"
  /\ rd[1].cframe = Some(2)
  /\ rd[1].shape[1][2] = 2

\* C14: without scipy no call creates, opens, reads or writes the file and
\* no sink or source comes to be: each constructor raises the RuntimeError
\* of _scipycheck, and AppendAmberFrame the error of its import.
C14_MissingDependency ==
  [][ ~scipy
      => /\ disk' = disk
         /\ out' = None
         /\ rd' = None
         /\ log' = log
         /\ ret'.outcome \in {"RuntimeError", "ImportError"}
         /\ NCOutput_init => ret' = Ret("NCOutput", "RuntimeError", None)
         /\ NCInput_init => ret' = Ret("NCInput", "RuntimeError", None)
         /\ (\E f \in FrameInputs : AppendAmberFrame_call(f[1], f[2]))
              => ret' = Ret("AppendAmberFrame", "ImportError", None) ]_vars

\* C14's case: without scipy, NCInput was constructed on a path that holds
\* a file and raised.
C14_Witness ==
  /\ ~scipy
  /\ disk.kind = "nc"
  /\ ret = Ret("NCInput", "RuntimeError", None)

\* C16: the per-frame variables an open sink holds all have the same number
\* of records, whether its appends returned or raised.
C16_NoIncompleteFrames ==
  (SinkOpen /\ RecordVars \subseteq DOMAIN out[1].variables)
  => \A v \in RecordVars : Len(out[1].variables[v]) = TimeLen(out[1])

\* C17: the cursor of an open source stays between 0 and the frame count
\* recorded at open, and read_nc returns a frame exactly when the cursor is
\* below that count (so on the first N calls of an N-frame file, and never
\* after).
C17_ReadsAllFrames ==
  [][ /\ SourceOpen'
           => /\ 0 <= rd'[1].cframe[1]
              /\ rd'[1].cframe[1] <= rd'[1].shape[1][1]
      /\ (SourceOpen /\ read_nc)
           => (ret'.outcome = "ok" <=> rd[1].cframe[1] < rd[1].shape[1][1]) ]_vars

\* C18: a read_nc that returns a frame moves the cursor by one and changes
\* nothing else: not the shape, the name or the variables of the source,
\* nor the file, nor the sink.
C18_ReadOnlyCursor ==
  [][ (read_nc /\ ret'.outcome = "ok")
      => /\ rd'[1] = [rd[1] EXCEPT !.cframe = Some(rd[1].cframe[1] + 1)]
         /\ rd'[1].shape = rd[1].shape
         /\ rd'[1].name = rd[1].name
         /\ rd'[1].variables = rd[1].variables
         /\ disk' = disk
         /\ out' = out ]_vars

\* C18's case: the last frame of a file of several frames has been returned.
C18_Witness ==
  /\ ret.op = "read_nc"
  /\ ret.outcome = "ok"
  /\ rd[1].cframe[1] >= 2
  /\ rd[1].cframe[1] = rd[1].shape[1][1]

\* C19: NCOutput.close returns without error from every state in which the
\* sink has not been closed, the state before the first append included.
C19_CloseFromAnyState ==
  [][ (~SinkClosed /\ NCOutput_close) => ret'.outcome = "ok" ]_vars

=============================================================================
